---- MODULE Spec2Model ----
(***************************************************************************)
(* A model of ureq's src/response.rs: the bounded body reader              *)
(* (LimitedRead), the body-strategy selector (Response::into_reader), the  *)
(* redirect history iterator (Hist) and the construction of a Response     *)
(* from bytes (Response::new, do_from_stream, parse_status_line) with the  *)
(* accessors of the result (status, content_type, charset).                *)
(*                                                                         *)
(* Strings and byte streams are sequences of one-character strings.        *)
(* Every component has its own specification; the variables of the other   *)
(* components stay at their idle values.                                   *)
(***************************************************************************)
EXTENDS Integers, Sequences, FiniteSets, TLC

VARIABLES
    lr,        \* the LimitedRead under test: [reader, limit, position]
    lrLast,    \* what the last LimitedRead::read call did
    lrOut,     \* every byte LimitedRead has delivered so far, in order
    lrSrc,     \* the bytes the wrapped reader held at construction
    pc,        \* where the Response is: "start", "failed", "response",
               \* "reader" (into_reader was called), "string" (into_string)
    origin,    \* how the Response was constructed, and from what
    resp,      \* the Response (kept, for reference, after it is consumed)
    perr,      \* the error construction failed with
    tmo,       \* what stream.set_read_timeout returned in into_reader
    bodyReader, \* the body reader into_reader returned
    rdLast,    \* what the last read of the body reader did
    rdOut,     \* every byte the body reader has delivered so far
    pool,      \* how many times the connection was handed to the pool
    strRes,    \* the result of into_string
    seen,      \* what the accessors of the Response returned
    hprev,     \* the redirect chain: hprev[r] is the response that is
               \* `previous` of response r, 0 for None
    iters,     \* the two Hist iterators in use
    hLast,     \* the last operation on the history
    dpc,       \* where the timed exchange is: "start", "status", "headers",
               \* "response", "body", "failed"
    dunit,     \* the request context of the timed exchange, with its deadline
    dstream,   \* its stream: the bytes left and the deadline it is wrapped with
    now,       \* the clock
    dread      \* what the last read of the timed exchange did

lrVars == <<lr, lrLast, lrOut, lrSrc>>

rVars == <<pc, origin, resp, perr, tmo, bodyReader, rdLast, rdOut, pool, strRes,
           seen>>

hVars == <<hprev, iters, hLast>>

dVars == <<dpc, dunit, dstream, now, dread>>

vars == <<lr, lrLast, lrOut, lrSrc,
          pc, origin, resp, perr, tmo, bodyReader, rdLast, rdOut, pool, strRes,
          seen,
          hprev, iters, hLast,
          dpc, dunit, dstream, now, dread>>

\* The values of the variables of a component that is not in use.
LimitedIdle ==
    /\ lr = "idle"
    /\ lrLast = "idle"
    /\ lrOut = <<>>
    /\ lrSrc = <<>>

ResponseIdle ==
    /\ pc = "idle"
    /\ origin = "idle"
    /\ resp = "idle"
    /\ perr = "idle"
    /\ tmo = "idle"
    /\ bodyReader = "idle"
    /\ rdLast = "idle"
    /\ rdOut = <<>>
    /\ pool = 0
    /\ strRes = "idle"
    /\ seen = "idle"

HistIdle ==
    /\ hprev = <<>>
    /\ iters = "idle"
    /\ hLast = "idle"

DeadlineIdle ==
    /\ dpc = "idle"
    /\ dunit = "idle"
    /\ dstream = "idle"
    /\ now = 0
    /\ dread = "idle"

(***************************************************************************)
(* Bounds of the model.                                                    *)
(***************************************************************************)
MaxBuf == 3      \* read calls use buffers of 0..MaxBuf bytes
MaxLimit == 3    \* LimitedRead limits are 0..MaxLimit
MaxSrc == 3      \* the wrapped reader holds 0..MaxSrc bytes

Min(a, b) == IF a < b THEN a ELSE b

Drop(s, k) == SubSeq(s, k + 1, Len(s))

Take(s, k) == SubSeq(s, 1, k)

(***************************************************************************)
(* io::Result<usize>: Ok(n) or Err(io::Error) with its kind and message.   *)
(***************************************************************************)
Ok(n) == [tag |-> "Ok", n |-> n, kind |-> "", msg |-> ""]

Err(kind, msg) == [tag |-> "Err", n |-> 0, kind |-> kind, msg |-> msg]

NoResult == [tag |-> "None", n |-> 0, kind |-> "", msg |-> ""]

\* The errors a read of the wrapped stream can fail with.
IoErrors == { [kind |-> "TimedOut", msg |-> "timed out reading response"] }

ShortReadMsg == "response body closed before all bytes were read"

(***************************************************************************)
(* self.reader.read(from) for a wrapped reader holding `data`, with a      *)
(* buffer of n bytes: it delivers between 1 and n of the bytes it holds,   *)
(* Ok(0) when it holds none (end of data) or the buffer is empty, or it    *)
(* fails and consumes nothing.                                             *)
(***************************************************************************)
ReadOutcomes(data, n) ==
    { [res |-> Ok(k), bytes |-> Take(data, k), data |-> Drop(data, k)] :
        k \in (IF n = 0 \/ data = <<>> THEN {0} ELSE 1..Min(n, Len(data))) }
    \cup
    { [res |-> Err(e.kind, e.msg), bytes |-> <<>>, data |-> data] : e \in IoErrors }

(***************************************************************************)
(* LimitedRead                                                             *)
(***************************************************************************)
LimitedRead_new(reader, limit) ==
    [reader |-> reader, limit |-> limit, position |-> 0]

\* A plausible bug: the end of the wrapped stream is passed on as a clean end.
LimitedRead_read_passEof(self, n) ==
    LET left == self.limit - self.position IN
    IF left = 0
    THEN { [self |-> self, res |-> Ok(0), bytes |-> <<>>, inner |-> NoResult] }
    ELSE LET from == IF left < n THEN left ELSE n IN
         { [self |-> [self EXCEPT !.reader = o.data,
                                  !.position = @ + o.res.n],
            res |-> o.res, bytes |-> o.bytes, inner |-> o.res] :
             o \in ReadOutcomes(self.reader, from) }

\* A plausible bug: the buffer is not cut to the bytes that are left.
LimitedRead_read_noClamp(self, n) ==
    LET left == self.limit - self.position IN
    IF left = 0
    THEN { [self |-> self, res |-> Ok(0), bytes |-> <<>>, inner |-> NoResult] }
    ELSE { IF o.res.tag = "Ok" /\ o.res.n = 0
           THEN [self |-> [self EXCEPT !.reader = o.data],
                 res |-> Err("InvalidData", ShortReadMsg),
                 bytes |-> <<>>, inner |-> o.res]
           ELSE [self |-> [self EXCEPT !.reader = o.data,
                                       !.position = @ + o.res.n],
                 res |-> o.res, bytes |-> o.bytes, inner |-> o.res] :
             o \in ReadOutcomes(self.reader, n) }

\* A plausible bug: a failed read of the wrapped reader is tried again, and
\* the outcome of the second attempt is returned.
LimitedRead_read_retries(self, n) ==
    LET left == self.limit - self.position IN
    IF left = 0
    THEN { [self |-> self, res |-> Ok(0), bytes |-> <<>>, inner |-> NoResult] }
    ELSE LET from == IF left < n THEN left ELSE n
             settle(o, first) ==
                 IF o.res.tag = "Ok" /\ o.res.n = 0
                 THEN [self |-> [self EXCEPT !.reader = o.data],
                       res |-> Err("InvalidData", ShortReadMsg),
                       bytes |-> <<>>, inner |-> first]
                 ELSE IF o.res.tag = "Ok"
                 THEN [self |-> [self EXCEPT !.reader = o.data,
                                             !.position = @ + o.res.n],
                       res |-> Ok(o.res.n), bytes |-> o.bytes, inner |-> first]
                 ELSE [self |-> [self EXCEPT !.reader = o.data],
                       res |-> Err(o.res.kind, o.res.msg),
                       bytes |-> <<>>, inner |-> first] IN
         UNION { IF o.res.tag = "Err"
                 THEN { settle(o2, o.res) : o2 \in ReadOutcomes(self.reader, from) }
                 ELSE { settle(o, o.res) } :
                 o \in ReadOutcomes(self.reader, from) }

\* LimitedRead::read(buf) with |buf| = n: the set of its possible outcomes,
\* one per outcome of the wrapped read. `inner` is the wrapped read's result,
\* NoResult when the wrapped reader was not read.
LimitedRead_read(self, n) ==
    LET left == self.limit - self.position IN
    IF left = 0
    THEN { [self |-> self, res |-> Ok(0), bytes |-> <<>>, inner |-> NoResult] }
    ELSE LET from == IF left < n THEN left ELSE n IN
         { IF o.res.tag = "Ok" /\ o.res.n = 0
           THEN [self |-> [self EXCEPT !.reader = o.data],
                 res |-> Err("InvalidData", ShortReadMsg),
                 bytes |-> <<>>, inner |-> o.res]
           ELSE IF o.res.tag = "Ok"
           THEN [self |-> [self EXCEPT !.reader = o.data,
                                       !.position = @ + o.res.n],
                 res |-> Ok(o.res.n), bytes |-> o.bytes, inner |-> o.res]
           ELSE [self |-> [self EXCEPT !.reader = o.data],
                 res |-> Err(o.res.kind, o.res.msg),
                 bytes |-> <<>>, inner |-> o.res] :
             o \in ReadOutcomes(self.reader, from) }

(***************************************************************************)
(* The specification of LimitedRead over any wrapped reader: a reader      *)
(* with any limit over any source, read with any sequence of buffer sizes. *)
(***************************************************************************)
Bytes == {"a", "b"}

SeqsUpTo(S, n) == UNION { [1..k -> S] : k \in 0..n }

NoCall == [called |-> FALSE, n |-> 0, posBefore |-> 0, readerBefore |-> <<>>,
           res |-> NoResult, inner |-> NoResult]

InitLimited ==
    /\ \E src \in SeqsUpTo(Bytes, MaxSrc), limit \in 0..MaxLimit :
          /\ lr = LimitedRead_new(src, limit)
          /\ lrSrc = src
    /\ lrLast = NoCall
    /\ lrOut = <<>>
    /\ ResponseIdle
    /\ HistIdle
    /\ DeadlineIdle

LRRead(n) ==
    \E o \in LimitedRead_read(lr, n) :
        /\ lr' = o.self
        /\ lrLast' = [called |-> TRUE, n |-> n, posBefore |-> lr.position,
                      readerBefore |-> lr.reader, res |-> o.res,
                      inner |-> o.inner]
        /\ lrOut' = lrOut \o o.bytes
        /\ UNCHANGED lrSrc
        /\ UNCHANGED rVars
        /\ UNCHANGED hVars
        /\ UNCHANGED dVars

NextLimited == \E n \in 0..MaxBuf : LRRead(n)

SpecLimited == InitLimited /\ [][NextLimited]_vars

(***************************************************************************)
(* C1: a read of a LimitedRead with limit N returns a clean end of data    *)
(* (Ok(0)) only when exactly N bytes have been delivered, and when the     *)
(* wrapped reader reports end of data after fewer than N bytes the read    *)
(* returns the InvalidData error "response body closed before all bytes    *)
(* were read".                                                             *)
(***************************************************************************)
C1_ShortReadIsError ==
    lrLast.called =>
        /\ (lrLast.res = Ok(0) =>
                /\ Len(lrOut) = lr.limit
                /\ lrLast.posBefore = lr.limit)
        /\ (lrLast.inner = Ok(0) /\ lrLast.posBefore < lr.limit =>
                lrLast.res = Err("InvalidData", ShortReadMsg))

\* A truncated body: the wrapped reader ended after 1 or more bytes, fewer
\* than the limit, and a read with a non-empty buffer met that end.
C1_Witness ==
    /\ lrLast.called
    /\ lrLast.n > 0
    /\ lrLast.readerBefore = <<>>
    /\ lrLast.inner = Ok(0)
    /\ 0 < lrLast.posBefore
    /\ lrLast.posBefore < lr.limit
    /\ lrLast.res.tag = "Err"

(***************************************************************************)
(* C2: the bytes delivered never exceed the limit N, a single read         *)
(* delivers at most min(buffer length, N - position) bytes, and once       *)
(* position = N a read returns 0 bytes without reading the wrapped reader, *)
(* whatever that reader still holds.                                       *)
(***************************************************************************)
C2_NeverBeyondLimit ==
    /\ lr.position <= lr.limit
    /\ Len(lrOut) = lr.position
    /\ lrOut = Take(lrSrc, lr.position)
    /\ lrLast.called =>
        /\ (lrLast.res.tag = "Ok" =>
                /\ lrLast.res.n <= Min(lrLast.n, lr.limit - lrLast.posBefore)
                /\ lr.position = lrLast.posBefore + lrLast.res.n)
        /\ (lrLast.posBefore = lr.limit =>
                /\ lrLast.res = Ok(0)
                /\ lrLast.inner = NoResult
                /\ lr.reader = lrLast.readerBefore)

\* The limit is reached while the wrapped reader holds more bytes, and a
\* further read with a non-empty buffer has been made.
C2_Witness ==
    /\ lrLast.called
    /\ lrLast.n > 0
    /\ lr.limit > 0
    /\ lrLast.posBefore = lr.limit
    /\ lr.reader # <<>>

(***************************************************************************)
(* Text.  A string is a sequence of characters; CR, LF and TAB stand for   *)
(* the bytes 13, 10 and 9, and NonAscii for any character above 127.       *)
(***************************************************************************)
CR == "CR"

LF == "LF"

TAB == "TAB"

SP == " "

NonAscii == "NonAscii"

Digits == <<"0", "1", "2", "3", "4", "5", "6", "7", "8", "9">>

UpperCase == <<"A", "B", "C", "D", "E", "F", "G", "H", "I", "J", "K", "L", "M",
               "N", "O", "P", "Q", "R", "S", "T", "U", "V", "W", "X", "Y", "Z">>

LowerCase == <<"a", "b", "c", "d", "e", "f", "g", "h", "i", "j", "k", "l", "m",
               "n", "o", "p", "q", "r", "s", "t", "u", "v", "w", "x", "y", "z">>

is_ascii_digit(c) == \E i \in DOMAIN Digits : Digits[i] = c

DigitVal(c) == (CHOOSE i \in DOMAIN Digits : Digits[i] = c) - 1

to_ascii_lowercase(c) ==
    IF \E i \in DOMAIN UpperCase : UpperCase[i] = c
    THEN LowerCase[CHOOSE i \in DOMAIN UpperCase : UpperCase[i] = c]
    ELSE c

eq_ignore_ascii_case(a, b) ==
    /\ Len(a) = Len(b)
    /\ \A i \in DOMAIN a : to_ascii_lowercase(a[i]) = to_ascii_lowercase(b[i])

is_ascii(s) == \A i \in DOMAIN s : s[i] # NonAscii

starts_with(s, p) == Len(s) >= Len(p) /\ Take(s, Len(p)) = p

ends_with(s, p) == Len(s) >= Len(p) /\ Drop(s, Len(s) - Len(p)) = p

\* str::find(c): the 0-based index of the first c, or -1 for None.
RECURSIVE find_from(_, _, _)
find_from(s, c, i) ==
    IF i > Len(s) THEN -1
    ELSE IF s[i] = c THEN i - 1
    ELSE find_from(s, c, i + 1)

find(s, c) == find_from(s, c, 1)

is_whitespace(c) == c \in {SP, TAB, CR, LF}

RECURSIVE trim_start(_)
trim_start(s) ==
    IF s # <<>> /\ is_whitespace(s[1]) THEN trim_start(Tail(s)) ELSE s

RECURSIVE trim_end(_)
trim_end(s) ==
    IF s # <<>> /\ is_whitespace(s[Len(s)])
    THEN trim_end(Take(s, Len(s) - 1))
    ELSE s

trim(s) == trim_end(trim_start(s))

\* s.splitn(3, ' '): at most three parts, split at the first two spaces.
splitn3(s) ==
    LET i == find(s, SP) IN
    IF i < 0 THEN <<s>>
    ELSE LET rest == Drop(s, i + 1)
             j == find(rest, SP) IN
         IF j < 0 THEN <<Take(s, i), rest>>
         ELSE <<Take(s, i), Take(rest, j), Drop(rest, j + 1)>>

U16Max == 65535

RECURSIVE DecimalValue(_)
DecimalValue(s) ==
    IF s = <<>> THEN 0
    ELSE 10 * DecimalValue(Take(s, Len(s) - 1)) + DigitVal(s[Len(s)])

\* str::parse for an unsigned integer type: an optional '+', then one or
\* more ASCII digits. -1 stands for Err.
parse_unsigned(s) ==
    LET digits == IF s # <<>> /\ s[1] = "+" THEN Tail(s) ELSE s IN
    IF digits = <<>> \/ \E i \in DOMAIN digits : ~is_ascii_digit(digits[i])
    THEN -1
    ELSE DecimalValue(digits)

parse_u16(s) ==
    LET v == parse_unsigned(s) IN IF v > U16Max THEN -1 ELSE v

\* format!("{}", n) for an unsigned integer.
RECURSIVE fmt_unsigned(_)
fmt_unsigned(n) ==
    IF n < 10 THEN <<Digits[n + 1]>>
    ELSE fmt_unsigned(n \div 10) \o <<Digits[(n % 10) + 1]>>

(***************************************************************************)
(* Header (crate::header, external to response.rs): a line "name: value".  *)
(* The line must hold a ':' after a non-empty name of token characters;    *)
(* value() is the text after the ':' trimmed, is_name() compares names     *)
(* without regard to ASCII case.                                           *)
(***************************************************************************)
Header_from_str(line) ==
    LET index == find(line, ":") IN
    IF index <= 0 \/ \E i \in 1..index : is_whitespace(line[i]) \/ line[i] = NonAscii
    THEN [ok |-> FALSE, name |-> <<>>, value |-> <<>>]
    ELSE [ok |-> TRUE, name |-> Take(line, index),
          value |-> trim(Drop(line, index + 1))]

Header_is_name(h, name) == eq_ignore_ascii_case(h.name, name)

(***************************************************************************)
(* Option<&str> and Option<usize>.                                         *)
(***************************************************************************)
NoneStr == [some |-> FALSE, v |-> <<>>]

SomeStr(s) == [some |-> TRUE, v |-> s]

NoneNum == [some |-> FALSE, v |-> 0]

SomeNum(n) == [some |-> TRUE, v |-> n]

(***************************************************************************)
(* parse_status_line: Ok((ResponseStatusIndex, status)) or Err(BadStatus). *)
(***************************************************************************)
S_HTTP_SLASH == <<"H", "T", "T", "P", "/">>

BadStatus(msg) ==
    [ok |-> FALSE, kind |-> "BadStatus", msg |-> msg,
     index |-> [http_version |-> 0, response_code |-> 0], status |-> 0]

\* parse_status_line with the version index at the end of the "HTTP/"
\* prefix instead of the end of the version token.
parse_status_line_versionPrefix(line) ==
    IF ~is_ascii(line) THEN BadStatus("Status line not ASCII")
    ELSE LET split == splitn3(line) IN
    IF Len(split) # 3 THEN BadStatus("Wrong number of tokens in status line")
    ELSE LET http_version == split[1]
             status_str == split[2] IN
    IF ~starts_with(http_version, S_HTTP_SLASH)
    THEN BadStatus("HTTP version did not start with HTTP/")
    ELSE IF Len(http_version) # 8 THEN BadStatus("HTTP version was wrong length")
    ELSE IF ~is_ascii_digit(http_version[6]) \/ ~is_ascii_digit(http_version[8])
    THEN BadStatus("HTTP version did not match format")
    ELSE IF Len(status_str) # 3 THEN BadStatus("Status code was wrong length")
    ELSE IF parse_u16(status_str) < 0 THEN BadStatus("")
    ELSE [ok |-> TRUE, kind |-> "", msg |-> "",
          index |-> [http_version |-> Len(S_HTTP_SLASH),
                     response_code |-> Len(http_version) + Len(status_str)],
          status |-> parse_u16(status_str)]

\* parse_status_line without the checks of the version token.
parse_status_line_anyVersion(line) ==
    IF ~is_ascii(line) THEN BadStatus("Status line not ASCII")
    ELSE LET split == splitn3(line) IN
    IF Len(split) # 3 THEN BadStatus("Wrong number of tokens in status line")
    ELSE LET http_version == split[1]
             status_str == split[2] IN
    IF Len(status_str) # 3 THEN BadStatus("Status code was wrong length")
    ELSE IF parse_u16(status_str) < 0 THEN BadStatus("")
    ELSE [ok |-> TRUE, kind |-> "", msg |-> "",
          index |-> [http_version |-> Len(http_version),
                     response_code |-> Len(http_version) + Len(status_str)],
          status |-> parse_u16(status_str)]

parse_status_line(line) ==
    IF ~is_ascii(line) THEN BadStatus("Status line not ASCII")
    ELSE LET split == splitn3(line) IN
    IF Len(split) # 3 THEN BadStatus("Wrong number of tokens in status line")
    ELSE LET http_version == split[1]
             status_str == split[2] IN
    IF ~starts_with(http_version, S_HTTP_SLASH)
    THEN BadStatus("HTTP version did not start with HTTP/")
    ELSE IF Len(http_version) # 8 THEN BadStatus("HTTP version was wrong length")
    ELSE IF ~is_ascii_digit(http_version[6]) \/ ~is_ascii_digit(http_version[8])
    THEN BadStatus("HTTP version did not match format")
    ELSE IF Len(status_str) # 3 THEN BadStatus("Status code was wrong length")
    ELSE IF parse_u16(status_str) < 0 THEN BadStatus("")
    ELSE [ok |-> TRUE, kind |-> "", msg |-> "",
          index |-> [http_version |-> Len(http_version),
                     response_code |-> Len(http_version) + Len(status_str)],
          status |-> parse_u16(status_str)]

\* read_next_line that also takes a bare LF for the end of a line.
read_next_line_bareLf(reader) ==
    LET nl == find(reader, LF)
        n == IF nl < 0 THEN Len(reader) ELSE nl + 1
        s == Take(reader, n)
        rest == Drop(reader, n) IN
    IF n = 0
    THEN [ok |-> FALSE, kind |-> "ConnectionAborted", msg |-> "Unexpected EOF",
          line |-> <<>>, reader |-> rest]
    ELSE IF ends_with(s, <<CR, LF>>)
    THEN [ok |-> TRUE, kind |-> "", msg |-> "",
          line |-> Take(s, Len(s) - 2), reader |-> rest]
    ELSE IF ends_with(s, <<LF>>)
    THEN [ok |-> TRUE, kind |-> "", msg |-> "",
          line |-> Take(s, Len(s) - 1), reader |-> rest]
    ELSE [ok |-> FALSE, kind |-> "InvalidInput",
          msg |-> "Header field didn't end with \\r", line |-> s, reader |-> rest]

\* read_next_line that takes the end of the stream for an empty line.
read_next_line_eofIsBlank(reader) ==
    LET nl == find(reader, LF)
        n == IF nl < 0 THEN Len(reader) ELSE nl + 1
        s == Take(reader, n)
        rest == Drop(reader, n) IN
    IF n = 0
    THEN [ok |-> TRUE, kind |-> "", msg |-> "", line |-> <<>>, reader |-> rest]
    ELSE IF ~ends_with(s, <<CR, LF>>)
    THEN [ok |-> FALSE, kind |-> "InvalidInput",
          msg |-> "Header field didn't end with \\r", line |-> s, reader |-> rest]
    ELSE [ok |-> TRUE, kind |-> "", msg |-> "",
          line |-> Take(s, Len(s) - 2), reader |-> rest]

(***************************************************************************)
(* read_next_line: BufRead::read_line takes the bytes up to and including  *)
(* the first LF, or all that is left; the line must end with CR LF, which  *)
(* is removed.                                                             *)
(***************************************************************************)
read_next_line(reader) ==
    LET nl == find(reader, LF)
        n == IF nl < 0 THEN Len(reader) ELSE nl + 1
        s == Take(reader, n)
        rest == Drop(reader, n) IN
    IF n = 0
    THEN [ok |-> FALSE, kind |-> "ConnectionAborted", msg |-> "Unexpected EOF",
          line |-> <<>>, reader |-> rest]
    ELSE IF ~ends_with(s, <<CR, LF>>)
    THEN [ok |-> FALSE, kind |-> "InvalidInput",
          msg |-> "Header field didn't end with \\r", line |-> s, reader |-> rest]
    ELSE [ok |-> TRUE, kind |-> "", msg |-> "",
          line |-> Take(s, Len(s) - 2), reader |-> rest]

(***************************************************************************)
(* Response.  unit is NoUnit or the request context; previous is not part  *)
(* of the record: the redirect chain is modelled with the history.         *)
(***************************************************************************)
NoUnit == [some |-> FALSE, is_head |-> FALSE]

SomeUnit(is_head) == [some |-> TRUE, is_head |-> is_head]

NoResponse ==
    [status_line |-> <<>>, index |-> [http_version |-> 0, response_code |-> 0],
     status |-> 0, headers |-> <<>>, unit |-> NoUnit, stream |-> <<>>]

ParseError(kind, msg) ==
    [ok |-> FALSE, kind |-> kind, msg |-> msg, resp |-> NoResponse]

\* The loop of do_from_stream, failing at a line the header parser rejects.
RECURSIVE read_headers_rejectFails(_, _)
read_headers_rejectFails(stream, headers) ==
    LET l == read_next_line(stream) IN
    IF ~l.ok THEN [ok |-> FALSE, kind |-> l.kind, msg |-> l.msg,
                   headers |-> headers, stream |-> l.reader]
    ELSE IF l.line = <<>>
    THEN [ok |-> TRUE, kind |-> "", msg |-> "",
          headers |-> headers, stream |-> l.reader]
    ELSE LET h == Header_from_str(l.line) IN
         IF h.ok
         THEN read_headers_rejectFails(l.reader,
                  Append(headers, [name |-> h.name, value |-> h.value]))
         ELSE [ok |-> FALSE, kind |-> "BadHeader", msg |-> "",
               headers |-> headers, stream |-> l.reader]

\* The loop of do_from_stream that reads the header block.
RECURSIVE read_headers(_, _)
read_headers(stream, headers) ==
    LET l == read_next_line(stream) IN
    IF ~l.ok THEN [ok |-> FALSE, kind |-> l.kind, msg |-> l.msg,
                   headers |-> headers, stream |-> l.reader]
    ELSE IF l.line = <<>>
    THEN [ok |-> TRUE, kind |-> "", msg |-> "",
          headers |-> headers, stream |-> l.reader]
    ELSE LET h == Header_from_str(l.line) IN
         read_headers(l.reader,
                      IF h.ok THEN Append(headers, [name |-> h.name, value |-> h.value])
                      ELSE headers)

\* A plausible bug: the byte after the blank line is lost with the buffer
\* the header block was read through.
do_from_stream_losesReadAhead(stream, unit) ==
    LET first == read_next_line(stream) IN
    IF ~first.ok THEN ParseError(first.kind, first.msg)
    ELSE LET st == parse_status_line(first.line) IN
    IF ~st.ok THEN ParseError(st.kind, st.msg)
    ELSE LET hs == read_headers(first.reader, <<>>) IN
    IF ~hs.ok THEN ParseError(hs.kind, hs.msg)
    ELSE [ok |-> TRUE, kind |-> "", msg |-> "",
          resp |-> [status_line |-> first.line, index |-> st.index,
                    status |-> st.status, headers |-> hs.headers,
                    unit |-> unit, stream |-> Drop(hs.stream, 1)]]

do_from_stream(stream, unit) ==
    LET first == read_next_line(stream) IN
    IF ~first.ok THEN ParseError(first.kind, first.msg)
    ELSE LET st == parse_status_line(first.line) IN
    IF ~st.ok THEN ParseError(st.kind, st.msg)
    ELSE LET hs == read_headers(first.reader, <<>>) IN
    IF ~hs.ok THEN ParseError(hs.kind, hs.msg)
    ELSE [ok |-> TRUE, kind |-> "", msg |-> "",
          resp |-> [status_line |-> first.line, index |-> st.index,
                    status |-> st.status, headers |-> hs.headers,
                    unit |-> unit, stream |-> hs.stream]]

\* impl FromStr for Response
Response_from_str(s) == do_from_stream(s, NoUnit)

S_HTTP11 == <<"H", "T", "T", "P", "/", "1", ".", "1">>

S_HTTP10 == <<"H", "T", "T", "P", "/", "1", ".", "0">>

\* format!("HTTP/1.1 {} {}\r\n\r\n{}\n", status, status_text, body)
Response_new_wire(status, status_text, body) ==
    S_HTTP11 \o <<SP>> \o fmt_unsigned(status) \o <<SP>> \o status_text
        \o <<CR, LF, CR, LF>> \o body \o <<LF>>

Response_new(status, status_text, body) ==
    Response_from_str(Response_new_wire(status, status_text, body))

(***************************************************************************)
(* Accessors of Response.                                                  *)
(***************************************************************************)
Response_http_version(self) == Take(self.status_line, self.index.http_version)

Response_status(self) == self.status

Response_status_text(self) ==
    trim(Drop(self.status_line, self.index.response_code + 1))

\* The value of the first header with the name, if any.
Response_header(self, name) ==
    IF \E i \in DOMAIN self.headers : Header_is_name(self.headers[i], name)
    THEN SomeStr(self.headers[CHOOSE i \in DOMAIN self.headers :
                     /\ Header_is_name(self.headers[i], name)
                     /\ \A j \in 1..(i - 1) : ~Header_is_name(self.headers[j], name)].value)
    ELSE NoneStr

S_content_type ==
    <<"c", "o", "n", "t", "e", "n", "t", "-", "t", "y", "p", "e">>

DEFAULT_CONTENT_TYPE == <<"t", "e", "x", "t", "/", "p", "l", "a", "i", "n">>

DEFAULT_CHARACTER_SET == <<"u", "t", "f", "-", "8">>

\* The type without the charset: the value up to the first ';'.
Response_content_type(self) ==
    LET h == Response_header(self, S_content_type) IN
    IF ~h.some THEN DEFAULT_CONTENT_TYPE
    ELSE LET index == find(h.v, ";") IN
         IF index >= 0 THEN Take(h.v, index) ELSE h.v

\* charset_from_content_type taking the first '=' of the whole value.
charset_from_content_type_anyEqual(header) ==
    IF ~header.some THEN DEFAULT_CHARACTER_SET
    ELSE LET semi == find(header.v, ";") IN
         IF semi < 0 THEN DEFAULT_CHARACTER_SET
         ELSE LET equal == find(header.v, "=") IN
              IF equal < 0 THEN DEFAULT_CHARACTER_SET
              ELSE trim(Drop(header.v, equal + 1))

\* header is an Option<&str>; semi and equal are 0-based offsets, equal
\* counted from the character after the ';'.
charset_from_content_type(header) ==
    IF ~header.some THEN DEFAULT_CHARACTER_SET
    ELSE LET semi == find(header.v, ";") IN
         IF semi < 0 THEN DEFAULT_CHARACTER_SET
         ELSE LET equal == find(Drop(header.v, semi + 1), "=") IN
              IF equal < 0 THEN DEFAULT_CHARACTER_SET
              ELSE trim(Drop(header.v, semi + equal + 2))

Response_charset(self) ==
    charset_from_content_type(Response_header(self, S_content_type))

(***************************************************************************)
(* Response::into_reader: the framing decision.                            *)
(***************************************************************************)
S_connection == <<"c", "o", "n", "n", "e", "c", "t", "i", "o", "n">>

S_close == <<"c", "l", "o", "s", "e">>

S_transfer_encoding ==
    <<"t", "r", "a", "n", "s", "f", "e", "r", "-",
      "e", "n", "c", "o", "d", "i", "n", "g">>

S_content_length ==
    <<"c", "o", "n", "t", "e", "n", "t", "-", "l", "e", "n", "g", "t", "h">>

is_http10(self) == eq_ignore_ascii_case(Response_http_version(self), S_HTTP10)

is_close(self) ==
    LET c == Response_header(self, S_connection) IN
    IF c.some THEN eq_ignore_ascii_case(c.v, S_close) ELSE FALSE

is_head(self) == IF self.unit.some THEN self.unit.is_head ELSE FALSE

has_no_body(self) == is_head(self) \/ self.status \in {204, 304}

is_chunked(self) ==
    LET enc == Response_header(self, S_transfer_encoding) IN
    IF enc.some THEN enc.v # <<>> ELSE FALSE

use_chunked(self) == ~is_http10(self) /\ ~has_no_body(self) /\ is_chunked(self)

\* A plausible bug: a Content-Length that does not parse counts as 0.
limit_bytes_unparsableIsZero(self) ==
    IF is_http10(self) \/ is_close(self) THEN NoneNum
    ELSE IF has_no_body(self) THEN SomeNum(0)
    ELSE LET l == Response_header(self, S_content_length) IN
         IF l.some /\ parse_unsigned(l.v) >= 0
         THEN SomeNum(parse_unsigned(l.v))
         ELSE IF l.some THEN SomeNum(0)
         ELSE NoneNum

limit_bytes(self) ==
    IF is_http10(self) \/ is_close(self) THEN NoneNum
    ELSE IF has_no_body(self) THEN SomeNum(0)
    ELSE LET l == Response_header(self, S_content_length) IN
         IF l.some /\ parse_unsigned(l.v) >= 0
         THEN SomeNum(parse_unsigned(l.v))
         ELSE NoneNum

(***************************************************************************)
(* chunked_transfer::Decoder (external crate): the bytes a chunked body    *)
(* decodes to, and whether it ends with the last-chunk "0 CR LF CR LF".    *)
(* Chunk sizes are one digit.                                              *)
(***************************************************************************)
RECURSIVE chunk_decode(_)
chunk_decode(raw) ==
    IF Len(raw) < 3 \/ raw[2] # CR \/ raw[3] # LF
    THEN [data |-> <<>>, ok |-> FALSE]
    ELSE IF ~is_ascii_digit(raw[1]) THEN [data |-> <<>>, ok |-> FALSE]
    ELSE LET size == DigitVal(raw[1])
             rest == Drop(raw, 3) IN
         IF size = 0
         THEN [data |-> <<>>, ok |-> starts_with(rest, <<CR, LF>>)]
         ELSE IF Len(rest) < size THEN [data |-> rest, ok |-> FALSE]
         ELSE IF ~starts_with(Drop(rest, size), <<CR, LF>>)
         THEN [data |-> Take(rest, size), ok |-> FALSE]
         ELSE LET more == chunk_decode(Drop(rest, size + 2)) IN
              [data |-> Take(rest, size) \o more.data, ok |-> more.ok]

(***************************************************************************)
(* The body reader into_reader returns: Box<dyn Read + Send>, one of       *)
(* ErrorReader, PoolReturnRead<ChunkDecoder>, PoolReturnRead<LimitedRead>  *)
(* and DeadlineStream.  pool says the reader is wrapped in PoolReturnRead, *)
(* unit is the unit the wrapper was given, returned that the wrapper has   *)
(* given its reader up.                                                    *)
(***************************************************************************)
NoError == [kind |-> "", msg |-> ""]

NoLimited == [reader |-> <<>>, limit |-> 0, position |-> 0]

NoReader ==
    [kind |-> "None", pool |-> FALSE, unit |-> FALSE, returned |-> FALSE,
     stream |-> <<>>, lr |-> NoLimited, dec |-> <<>>, decOk |-> FALSE,
     err |-> NoError]

ErrorReader(e) == [NoReader EXCEPT !.kind = "ErrorReader", !.err = e]

ChunkDecoder_new(stream) ==
    [NoReader EXCEPT !.kind = "ChunkDecoder",
                     !.dec = chunk_decode(stream).data,
                     !.decOk = chunk_decode(stream).ok]

LimitedReader(stream, len) ==
    [NoReader EXCEPT !.kind = "LimitedRead", !.lr = LimitedRead_new(stream, len)]

DeadlineStream_new(stream) == [NoReader EXCEPT !.kind = "Stream", !.stream = stream]

PoolReturnRead_new(unit, reader) ==
    [reader EXCEPT !.pool = TRUE, !.unit = unit.some]

\* A plausible bug: a Content-Length wins over Transfer-Encoding.
into_reader_lengthFirst(self, timeout) ==
    IF self.unit.some /\ timeout.kind # "" THEN ErrorReader(timeout)
    ELSE IF limit_bytes(self).some
    THEN PoolReturnRead_new(self.unit, LimitedReader(self.stream, limit_bytes(self).v))
    ELSE IF use_chunked(self)
    THEN PoolReturnRead_new(self.unit, ChunkDecoder_new(self.stream))
    ELSE DeadlineStream_new(self.stream)

\* A plausible bug: the read-until-close reader is pool-returned as well.
into_reader_poolAll(self, timeout) ==
    IF self.unit.some /\ timeout.kind # "" THEN ErrorReader(timeout)
    ELSE IF use_chunked(self)
    THEN PoolReturnRead_new(self.unit, ChunkDecoder_new(self.stream))
    ELSE IF limit_bytes(self).some
    THEN PoolReturnRead_new(self.unit, LimitedReader(self.stream, limit_bytes(self).v))
    ELSE PoolReturnRead_new(self.unit, DeadlineStream_new(self.stream))

\* A plausible bug: the chunk decoder is only used when the stream has
\* bytes to decode.
into_reader_peeksStream(self, timeout) ==
    IF self.unit.some /\ timeout.kind # "" THEN ErrorReader(timeout)
    ELSE IF use_chunked(self) /\ self.stream # <<>>
    THEN PoolReturnRead_new(self.unit, ChunkDecoder_new(self.stream))
    ELSE IF limit_bytes(self).some
    THEN PoolReturnRead_new(self.unit, LimitedReader(self.stream, limit_bytes(self).v))
    ELSE DeadlineStream_new(self.stream)

\* into_reader; timeout is what stream.set_read_timeout returns, NoError
\* for Ok(()).
into_reader(self, timeout) ==
    IF self.unit.some /\ timeout.kind # "" THEN ErrorReader(timeout)
    ELSE IF use_chunked(self)
    THEN PoolReturnRead_new(self.unit, ChunkDecoder_new(self.stream))
    ELSE IF limit_bytes(self).some
    THEN PoolReturnRead_new(self.unit, LimitedReader(self.stream, limit_bytes(self).v))
    ELSE DeadlineStream_new(self.stream)

(***************************************************************************)
(* Reading the body reader with a buffer of n bytes: the set of outcomes   *)
(* [rd, res, bytes, pooled], pooled saying the connection was handed to    *)
(* the pool by this call.  A stream without a unit was made by from_str    *)
(* from a byte vector: reading it never fails.                             *)
(***************************************************************************)
\* A plausible bug: the captured error is replaced by a generic one.
ErrorReader_read_otherKind(self) == Err("Other", "set_read_timeout failed")

ErrorReader_read(self) == Err(self.err.kind, self.err.msg)

ChunkDecoder_read(self, n) ==
    IF self.dec # <<>>
    THEN { [rd |-> [self EXCEPT !.dec = Drop(self.dec, k)],
            res |-> Ok(k), bytes |-> Take(self.dec, k)] :
             k \in 1..Min(n, Len(self.dec)) }
    ELSE IF self.decOk THEN { [rd |-> self, res |-> Ok(0), bytes |-> <<>>] }
    ELSE { [rd |-> self, res |-> Err("InvalidInput", "chunk"), bytes |-> <<>>] }

Inner_read(self, n, live) ==
    LET all ==
        CASE self.kind = "ErrorReader" ->
               { [rd |-> self, res |-> ErrorReader_read(self), bytes |-> <<>>] }
          [] self.kind = "ChunkDecoder" ->
               ChunkDecoder_read(self, n)
               \cup { [rd |-> self, res |-> Err(e.kind, e.msg), bytes |-> <<>>] :
                        e \in IoErrors }
          [] self.kind = "LimitedRead" ->
               { [rd |-> [self EXCEPT !.lr = o.self], res |-> o.res,
                  bytes |-> o.bytes] : o \in LimitedRead_read(self.lr, n) }
          [] OTHER ->
               { [rd |-> [self EXCEPT !.stream = o.data], res |-> o.res,
                  bytes |-> o.bytes] : o \in ReadOutcomes(self.stream, n) }
    IN  IF live \/ self.kind = "ErrorReader" THEN all
        ELSE { o \in all : ~(o.res.tag = "Err" /\ o.res.kind = "TimedOut") }

\* PoolReturnRead::read (crate::pool): a read of 0 bytes from the wrapped
\* reader gives the reader up and, with a unit, returns the connection.
PoolReturnRead_read(self, n, live) ==
    IF self.returned
    THEN { [rd |-> self, res |-> Ok(0), bytes |-> <<>>, pooled |-> FALSE] }
    ELSE { IF o.res = Ok(0)
           THEN [rd |-> [o.rd EXCEPT !.returned = TRUE], res |-> o.res,
                 bytes |-> o.bytes, pooled |-> self.unit]
           ELSE [rd |-> o.rd, res |-> o.res, bytes |-> o.bytes, pooled |-> FALSE] :
             o \in Inner_read(self, n, live) }

Reader_read(self, n, live) ==
    IF self.pool THEN PoolReturnRead_read(self, n, live)
    ELSE { [rd |-> o.rd, res |-> o.res, bytes |-> o.bytes, pooled |-> FALSE] :
             o \in Inner_read(self, n, live) }

(***************************************************************************)
(* Response::into_string: read_to_end on the body reader, then the bytes   *)
(* as text.  InvalidByte stands for a byte that is not valid UTF-8.        *)
(***************************************************************************)
InvalidByte == "InvalidByte"

Replacement == "U+FFFD"

from_utf8_lossy(buf) ==
    [i \in DOMAIN buf |-> IF buf[i] = InvalidByte THEN Replacement ELSE buf[i]]

\* Read::read_to_end with buffers of n bytes: every way it can end.
RECURSIVE read_to_end(_, _, _, _)
read_to_end(self, n, live, acc) ==
    UNION { IF o.res.tag = "Err"
            THEN { [res |-> o.res, buf |-> acc, rd |-> o.rd, pooled |-> FALSE] }
            ELSE IF o.res.n = 0
            THEN { [res |-> Ok(Len(acc)), buf |-> acc, rd |-> o.rd,
                    pooled |-> o.pooled] }
            ELSE read_to_end(o.rd, n, live, acc \o o.bytes) :
              o \in Reader_read(self, n, live) }

(***************************************************************************)
(* The inputs of the Response specification.                               *)
(***************************************************************************)
S_OK == <<"O", "K">>

S_Connection == <<"C", "o", "n", "n", "e", "c", "t", "i", "o", "n">>

S_Close == <<"C", "l", "o", "s", "e">>

S_keep_alive == <<"k", "e", "e", "p", "-", "a", "l", "i", "v", "e">>

S_Transfer_Encoding ==
    <<"T", "r", "a", "n", "s", "f", "e", "r", "-",
      "E", "n", "c", "o", "d", "i", "n", "g">>

S_chunked == <<"c", "h", "u", "n", "k", "e", "d">>

S_gzip == <<"g", "z", "i", "p">>

S_Content_Length ==
    <<"C", "o", "n", "t", "e", "n", "t", "-", "L", "e", "n", "g", "t", "h">>

S_Authorization_Required ==
    <<"A", "u", "t", "h", "o", "r", "i", "z", "a", "t", "i", "o", "n", " ",
      "R", "e", "q", "u", "i", "r", "e", "d">>

S_Please_log_in ==
    <<"P", "l", "e", "a", "s", "e", " ", "l", "o", "g", " ", "i", "n">>

HeaderLine(name, value) == name \o <<":", SP>> \o value \o <<CR, LF>>

ConnectionLines ==
    { <<>>, HeaderLine(S_Connection, S_Close), HeaderLine(S_Connection, S_keep_alive) }

TransferEncodingLines ==
    { <<>>, HeaderLine(S_Transfer_Encoding, <<>>),
      HeaderLine(S_Transfer_Encoding, S_chunked),
      HeaderLine(S_Transfer_Encoding, S_gzip) }

ContentLengthLines ==
    { <<>>, HeaderLine(S_Content_Length, <<"2">>),
      HeaderLine(S_Content_Length, <<"-", "1">>) }

\* Content-Length values that are not plain numbers: non-numeric, empty,
\* and with the '+' that usize parsing accepts.
UnusualLengths == { <<"x">>, <<>>, <<"+", "1">> }

HeaderBlocks ==
    { c \o te \o cl : c \in ConnectionLines, te \in TransferEncodingLines,
                       cl \in ContentLengthLines }
    \cup { HeaderLine(S_Transfer_Encoding, <<>>)
             \o HeaderLine(S_Transfer_Encoding, S_chunked) }
    \cup { HeaderLine(S_Content_Length, v) : v \in UnusualLengths }

StatusLines ==
    { v \o <<SP>> \o fmt_unsigned(s) \o <<SP>> \o S_OK \o <<CR, LF>> :
        v \in {S_HTTP10, S_HTTP11}, s \in {200, 204, 304} }

\* Bodies: plain bytes, a complete chunked body and a truncated one.
Bodies ==
    { <<>>, <<"a">>, <<"a", "b">>, <<"a", "b", "c">>,
      <<"1", CR, LF, "a", CR, LF, "0", CR, LF, CR, LF>>,
      <<"2", CR, LF, "a">> }

Wires == { sl \o hb \o <<CR, LF>> \o b :
             sl \in StatusLines, hb \in HeaderBlocks, b \in Bodies }

\* The responses parsed from a string: HTTP/1.1 200 ones.
StrWires ==
    { S_HTTP11 \o <<SP>> \o fmt_unsigned(200) \o <<SP>> \o S_OK \o <<CR, LF>>
        \o hb \o <<CR, LF>> \o b : hb \in HeaderBlocks, b \in Bodies }

NewStatuses == {200, 401}

NewReasons == {S_OK, S_Authorization_Required}

NewBodies == {<<>>, <<"a">>, S_Please_log_in}

\* What stream.set_read_timeout can return: Ok(()) or an error.
SetReadTimeoutResults ==
    { NoError, [kind |-> "InvalidInput", msg |-> "cannot set a 0 duration timeout"] }

NoRead == [called |-> FALSE, res |-> NoResult, pooled |-> FALSE]

NoOrigin == [how |-> "none", status |-> 0, reason |-> <<>>, body |-> <<>>,
             wire |-> <<>>]

NoString == [ok |-> FALSE, text |-> <<>>, kind |-> "", msg |-> ""]

NoSeen == [http_version |-> <<>>, status |-> 0, status_text |-> <<>>,
           content_type |-> <<>>, charset |-> <<>>]

InitResponse ==
    /\ pc = "start"
    /\ origin = NoOrigin
    /\ resp = NoResponse
    /\ perr = NoError
    /\ tmo = NoError
    /\ bodyReader = NoReader
    /\ rdLast = NoRead
    /\ rdOut = <<>>
    /\ pool = 0
    /\ strRes = NoString
    /\ seen = NoSeen
    /\ LimitedIdle
    /\ HistIdle
    /\ DeadlineIdle

\* The construction of a Response ends in a Response or in an error.
Constructed(r) ==
    /\ pc' = IF r.ok THEN "response" ELSE "failed"
    /\ resp' = r.resp
    /\ perr' = IF r.ok THEN NoError ELSE [kind |-> r.kind, msg |-> r.msg]
    /\ UNCHANGED <<tmo, bodyReader, rdLast, rdOut, pool, strRes, seen>>
    /\ UNCHANGED lrVars
    /\ UNCHANGED hVars
    /\ UNCHANGED dVars

\* Response::new(status, status_text, body)
New(status, status_text, body) ==
    /\ pc = "start"
    /\ origin' = [how |-> "new", status |-> status, reason |-> status_text,
                  body |-> body,
                  wire |-> Response_new_wire(status, status_text, body)]
    /\ Constructed(Response_new(status, status_text, body))

\* s.parse::<Response>()
FromStr(s) ==
    /\ pc = "start"
    /\ origin' = [NoOrigin EXCEPT !.how = "from_str", !.wire = s]
    /\ Constructed(Response_from_str(s))

\* Response::do_from_request(unit, stream, previous)
FromRequest(s, is_head_request) ==
    /\ pc = "start"
    /\ origin' = [NoOrigin EXCEPT !.how = "request", !.wire = s]
    /\ Constructed(do_from_stream(s, SomeUnit(is_head_request)))

\* Response::into_reader(self)
IntoReader(timeout) ==
    /\ pc = "response"
    /\ resp.unit.some \/ timeout = NoError
    /\ pc' = "reader"
    /\ tmo' = timeout
    /\ bodyReader' = into_reader(resp, timeout)
    /\ UNCHANGED <<origin, resp, perr, rdLast, rdOut, pool, strRes, seen>>
    /\ UNCHANGED lrVars
    /\ UNCHANGED hVars
    /\ UNCHANGED dVars

\* Read::read(buf) on the body reader, with |buf| = n.  The chunked
\* decoder is read with non-empty buffers only.
Read(n) ==
    /\ pc = "reader"
    /\ bodyReader.kind = "ChunkDecoder" => n > 0
    /\ \E o \in Reader_read(bodyReader, n, resp.unit.some) :
          /\ bodyReader' = o.rd
          /\ rdLast' = [called |-> TRUE, res |-> o.res, pooled |-> o.pooled]
          /\ rdOut' = rdOut \o o.bytes
          /\ pool' = IF o.pooled THEN pool + 1 ELSE pool
    /\ UNCHANGED <<pc, origin, resp, perr, tmo, strRes, seen>>
    /\ UNCHANGED lrVars
    /\ UNCHANGED hVars
    /\ UNCHANGED dVars

\* Response::into_string(self)
IntoString(timeout, n) ==
    /\ pc = "response"
    /\ resp.unit.some \/ timeout = NoError
    /\ \E o \in read_to_end(into_reader(resp, timeout), n, resp.unit.some, <<>>) :
          /\ bodyReader' = o.rd
          /\ strRes' = IF o.res.tag = "Ok"
                       THEN [ok |-> TRUE, text |-> from_utf8_lossy(o.buf),
                             kind |-> "", msg |-> ""]
                       ELSE [ok |-> FALSE, text |-> <<>>,
                             kind |-> o.res.kind, msg |-> o.res.msg]
          /\ rdOut' = o.buf
          /\ pool' = IF o.pooled THEN pool + 1 ELSE pool
    /\ pc' = "string"
    /\ tmo' = timeout
    /\ UNCHANGED <<origin, resp, perr, rdLast, seen>>
    /\ UNCHANGED lrVars
    /\ UNCHANGED hVars
    /\ UNCHANGED dVars

NextResponse ==
    \/ \E s \in NewStatuses, r \in NewReasons, b \in NewBodies : New(s, r, b)
    \/ \E w \in StrWires : FromStr(w)
    \/ \E w \in Wires, h \in BOOLEAN : FromRequest(w, h)
    \/ \E t \in SetReadTimeoutResults : IntoReader(t)
    \/ \E n \in 0..MaxBuf : Read(n)
    \/ \E t \in SetReadTimeoutResults, n \in 1..MaxBuf : IntoString(t, n)

SpecResponse == InitResponse /\ [][NextResponse]_vars

(***************************************************************************)
(* Helpers of the statements about the body reader.                        *)
(***************************************************************************)
Consumed == pc \in {"reader", "string"}

IsPrefix(p, s) == Len(p) <= Len(s) /\ Take(s, Len(p)) = p

\* The Response without its headers of the name.
WithoutHeader(self, name) ==
    [self EXCEPT !.headers = SelectSeq(@, LAMBDA h : ~Header_is_name(h, name))]

(***************************************************************************)
(* C3: for a response that is HTTP/1.0 or carries Connection: close,       *)
(* into_reader reads the body until the stream closes (no chunked          *)
(* decoding, no Content-Length limit, apart from the forced-empty body of  *)
(* HEAD/204/304) and does not wrap the reader in the pool-return wrapper,  *)
(* so the connection is never returned to the pool.                        *)
(***************************************************************************)
C3_CloseDelimitedNeverPooled ==
    Consumed /\ (is_http10(resp) \/ is_close(resp))
             /\ bodyReader.kind # "ErrorReader" =>
        /\ ~bodyReader.pool
        /\ pool = 0
        /\ \/ bodyReader.kind = "Stream"
           \/ /\ has_no_body(resp)
              /\ bodyReader.kind = "LimitedRead"
              /\ bodyReader.lr.limit = 0

(***************************************************************************)
(* C4: for a response to a HEAD request or with status 204 or 304 the      *)
(* body reader delivers zero bytes on every read, whatever the version,    *)
(* the headers and the bytes that follow the header block.                 *)
(***************************************************************************)
C4_NoBodyDeliversNothing ==
    Consumed /\ has_no_body(resp) =>
        /\ rdOut = <<>>
        /\ (rdLast.called /\ rdLast.res.tag = "Ok" => rdLast.res.n = 0)
        /\ (pc = "string" /\ strRes.ok => strRes.text = <<>>)

(***************************************************************************)
(* C5: for a response that is not HTTP/1.0, has no Connection: close and   *)
(* may have a body, a Transfer-Encoding header with a non-empty value      *)
(* selects chunked framing, and a Content-Length header changes neither    *)
(* the reader selected nor the bytes delivered.  (The header is the one    *)
(* header() finds: the first of that name.)                                *)
(***************************************************************************)
C5_ChunkedIgnoresContentLength ==
    Consumed /\ ~is_http10(resp) /\ ~is_close(resp) /\ ~has_no_body(resp)
             /\ Response_header(resp, S_transfer_encoding).some
             /\ Response_header(resp, S_transfer_encoding).v # <<>> =>
        /\ use_chunked(resp)
        /\ (bodyReader.kind # "ErrorReader" => bodyReader.kind = "ChunkDecoder")
        /\ into_reader(WithoutHeader(resp, S_content_length), tmo)
             = into_reader(resp, tmo)
        /\ (bodyReader.kind # "ErrorReader" =>
              IsPrefix(rdOut, chunk_decode(resp.stream).data))
        /\ (pc = "string" /\ strRes.ok =>
              strRes.text = chunk_decode(resp.stream).data)

\* A chunked body of one byte under Content-Length: 2 has been read.
C5_Witness ==
    /\ pc = "reader"
    /\ ~is_http10(resp) /\ ~is_close(resp) /\ ~has_no_body(resp)
    /\ Response_header(resp, S_transfer_encoding) = SomeStr(S_gzip)
    /\ Response_header(resp, S_content_length) = SomeStr(<<"2">>)
    /\ bodyReader.kind = "ChunkDecoder"
    /\ rdOut = <<"a">>
    /\ rdLast.res = Ok(0)

C7_TimeoutFailureDeferred ==
    Consumed /\ tmo # NoError =>
        /\ bodyReader.kind = "ErrorReader"
        /\ bodyReader.err = tmo
        /\ rdOut = <<>>
        /\ pool = 0
        /\ (rdLast.called => rdLast.res = Err(tmo.kind, tmo.msg))
        /\ (pc = "string" =>
                ~strRes.ok /\ strRes.kind = tmo.kind /\ strRes.msg = tmo.msg)

\* The timeout could not be set on a response whose headers select chunked
\* framing, and the reader has been read.
C7_Witness ==
    /\ pc = "reader"
    /\ tmo # NoError
    /\ use_chunked(resp)
    /\ rdLast.called
    /\ rdLast.res.tag = "Err"

(***************************************************************************)
(* C10: for a 3-digit status s, a reason r and a body b,                   *)
(* Response::new(s, r, b) succeeds, status() = s, status_text() = r and    *)
(* into_string() = b.                                                      *)
(***************************************************************************)
C10_NewRoundTrip ==
    origin.how = "new" /\ origin.status \in 100..999 =>
        /\ pc # "failed"
        /\ (pc \in {"response", "reader", "string"} =>
                /\ Response_status(resp) = origin.status
                /\ Response_status_text(resp) = origin.reason)
        /\ (pc = "string" => strRes.ok /\ strRes.text = origin.body)

(***************************************************************************)
(* The redirect history.  Responses are numbered 1, 2, ... in the order    *)
(* they are made; a response is made with its `previous`, an               *)
(* Option<Arc<Response>>: None (0) or a response made before it.           *)
(***************************************************************************)
MaxChain == 3    \* at most MaxChain responses are made

NoHist == [live |-> FALSE, of |-> 0, response |-> 0, yielded |-> <<>>,
           done |-> FALSE]

\* Hist::new(response)
Hist_new(response) == response

\* A plausible bug: the iterator starts at the response itself.
Response_history_fromSelf(self, chain) == Hist_new(self)

\* Response::history(&self): Hist::new(self.previous.as_deref())
Response_history(self, chain) == Hist_new(chain[self])

\* A plausible bug: next() takes the `previous` link out of the response.
Hist_next_takesLink(response, chain) ==
    IF response = 0
    THEN [response |-> 0, item |-> 0, chain |-> chain]
    ELSE [response |-> chain[response], item |-> response,
          chain |-> [chain EXCEPT ![response] = 0]]

\* Hist::next(&mut self): the iterator's new `response`, the item returned
\* (0 for None) and the chain after the call.
Hist_next(response, chain) ==
    IF response = 0
    THEN [response |-> 0, item |-> 0, chain |-> chain]
    ELSE [response |-> chain[response], item |-> response, chain |-> chain]

InitHist ==
    /\ hprev = <<>>
    /\ iters = [s \in {1, 2} |-> NoHist]
    /\ hLast = [op |-> "none", slot |-> 0]
    /\ LimitedIdle
    /\ ResponseIdle
    /\ DeadlineIdle

\* Response::do_from_request(unit, stream, previous)
MakeResponse(previous) ==
    /\ Len(hprev) < MaxChain
    /\ hprev' = Append(hprev, previous)
    /\ hLast' = [op |-> "make", slot |-> 0]
    /\ UNCHANGED iters
    /\ UNCHANGED <<lrVars, rVars, dVars>>

\* let it = r.history(), kept in slot s
History(s, r) ==
    /\ r \in DOMAIN hprev
    /\ iters' = [iters EXCEPT ![s] =
                    [live |-> TRUE, of |-> r,
                     response |-> Response_history(r, hprev),
                     yielded |-> <<>>, done |-> FALSE]]
    /\ hLast' = [op |-> "history", slot |-> s]
    /\ UNCHANGED hprev
    /\ UNCHANGED <<lrVars, rVars, dVars>>

\* it.next() on the iterator in slot s
HistNext(s) ==
    /\ iters[s].live
    /\ ~iters[s].done
    /\ LET o == Hist_next(iters[s].response, hprev) IN
          /\ iters' = [iters EXCEPT ![s] =
                          [@ EXCEPT !.response = o.response,
                                    !.yielded = IF o.item = 0 THEN @
                                                ELSE Append(@, o.item),
                                    !.done = (o.item = 0)]]
          /\ hprev' = o.chain
    /\ hLast' = [op |-> "next", slot |-> s]
    /\ UNCHANGED <<lrVars, rVars, dVars>>

NextHist ==
    \/ \E previous \in 0..Len(hprev) : MakeResponse(previous)
    \/ \E s \in {1, 2}, r \in 1..MaxChain : History(s, r)
    \/ \E s \in {1, 2} : HistNext(s)

SpecHist == InitHist /\ [][NextHist]_vars

\* R(n-1), R(n-2), ..., R0: the predecessors of r, the nearest first.
RECURSIVE Predecessors(_)
Predecessors(r) ==
    IF hprev[r] = 0 THEN <<>> ELSE <<hprev[r]>> \o Predecessors(hprev[r])

\* The chain is R1 <- R2 <- ... : every response follows the one made before.
LinearChain == \A r \in DOMAIN hprev : hprev[r] = r - 1

(***************************************************************************)
(* C8: for a redirect chain R0 <- R1 <- ... <- Rn, iterating Rn.history()  *)
(* yields exactly R(n-1), ..., R0 in that order, never Rn itself, each     *)
(* predecessor once, and then ends; the history of a response without      *)
(* predecessor is empty.                                                   *)
(***************************************************************************)
C8_HistoryYieldsPredecessors ==
    \A s \in {1, 2} :
        iters[s].live =>
            LET it == iters[s] IN
            /\ IsPrefix(it.yielded, Predecessors(it.of))
            /\ (it.done => it.yielded = Predecessors(it.of))
            /\ \A i \in DOMAIN it.yielded : it.yielded[i] # it.of
            /\ \A i, j \in DOMAIN it.yielded : it.yielded[i] = it.yielded[j] => i = j
            /\ (it.done /\ hprev[it.of] = 0 => it.yielded = <<>>)
            /\ (it.done /\ LinearChain =>
                    it.yielded = [k \in 1..(it.of - 1) |-> it.of - k])

\* The history of the third response of a chain R0 <- R1 <- R2 was read to
\* its end.
C8_Witness ==
    /\ hprev = <<0, 1, 2>>
    /\ iters[1].live
    /\ iters[1].of = 3
    /\ iters[1].done
    /\ iters[1].yielded = <<2, 1>>

(***************************************************************************)
(* C9: two history() iterators of the same response are independent and    *)
(* yield the same: a next() on one changes neither the other nor the       *)
(* chain, so both, and any iterator made later, yield the full sequence.   *)
(***************************************************************************)
C9_HistoryIndependent ==
    /\ [](iters[1].live /\ iters[2].live /\ iters[1].of = iters[2].of
            /\ iters[1].done /\ iters[2].done =>
                iters[1].yielded = iters[2].yielded)
    /\ [][hLast'.op = "next" =>
            /\ hprev' = hprev
            /\ iters'[3 - hLast'.slot] = iters[3 - hLast'.slot]]_vars
    /\ [][hLast'.op = "history" =>
            /\ hprev' = hprev
            /\ iters'[hLast'.slot].response = hprev[iters'[hLast'.slot].of]
            /\ iters'[3 - hLast'.slot] = iters[3 - hLast'.slot]]_vars

\* Both iterators are over the same response with two predecessors; one is
\* exhausted while the other has not moved.
C9_Witness ==
    /\ iters[1].live /\ iters[2].live
    /\ iters[1].of = iters[2].of
    /\ Len(Predecessors(iters[1].of)) = 2
    /\ iters[1].done
    /\ iters[1].yielded = Predecessors(iters[1].of)
    /\ iters[2].yielded = <<>>
    /\ ~iters[2].done

(***************************************************************************)
(* The construction of a Response from text, on its own: status lines and  *)
(* header blocks, well-formed and not, and the accessors of the result.    *)
(***************************************************************************)
MaxHeaderLines == 2    \* header blocks have 0..MaxHeaderLines lines

S_Content_Type ==
    <<"C", "o", "n", "t", "e", "n", "t", "-", "T", "y", "p", "e">>

\* Version tokens: two of the shape HTTP/d.d, one too long, one without a
\* digit at offset 5, one without the prefix.
ParseVersions ==
    { S_HTTP11, S_HTTP10,
      <<"H", "T", "T", "P", "/", "1", ".", "1", "5">>,
      <<"H", "T", "T", "P", "/", "x", ".", "1">>,
      <<"h", "t", "t", "p", "/", "1", ".", "1">> }

ParseCodes ==
    { <<"2", "0", "0">>, <<"1", "0", "0">>, <<"9", "9", "9">>,
      <<"0", "9", "9">>, <<"0", "0", "0">>, <<"+", "1", "2">>,
      <<"-", "1", "2">>, <<"2", "x", "0">>, <<"2", "0">>,
      <<"2", "0", "0", "0">>, <<>> }

ParseReasons ==
    { S_OK, <<>>, <<SP, "O", "K", SP>>, <<"N", "o", SP, "F">>, <<NonAscii>> }

S_BORKED == <<"B", "O", "R", "K", "E", "D">>

\* Status lines without their terminator: three tokens, two tokens, one.
StatusLineTexts ==
    { v \o <<SP>> \o c \o <<SP>> \o r :
        v \in ParseVersions, c \in ParseCodes, r \in ParseReasons }
    \cup { v \o <<SP>> \o c : v \in ParseVersions, c \in ParseCodes \cup {S_BORKED} }
    \cup ParseVersions

\* What follows the status line: CR LF and an empty header block, a bare
\* LF, or the end of the stream.
StatusLineEnds == { <<CR, LF, CR, LF, "a">>, <<LF, CR, LF>>, <<>> }

StatusWires == { t \o e : t \in StatusLineTexts, e \in StatusLineEnds }

\* Header lines with their terminators: Content-Type values with and
\* without parameters, a line the header parser rejects, a header that
\* blocks can repeat, and a line that ends with a bare LF.
ParseHeaderLines ==
    { HeaderLine(S_Content_Type, <<"a", "/", "b">>),
      HeaderLine(S_content_type, <<"a", ";", "c", "=", "u">>),
      HeaderLine(S_Content_Type, <<"a", ";", "q">>),
      HeaderLine(S_Content_Type, <<"a", ";", SP, "c", "=", SP, "u", SP, ";", "d", "=", "1">>),
      HeaderLine(S_Content_Type, <<"a", "=", "b", ";", "c">>),
      <<"b", "a", "d", CR, LF>>,
      HeaderLine(<<"X">>, <<"1">>),
      <<"X", ":", SP, "2", LF>> }

RECURSIVE Concat(_)
Concat(ss) == IF ss = <<>> THEN <<>> ELSE Head(ss) \o Concat(Tail(ss))

\* What follows the header lines: the blank line and a body, the blank
\* line alone, the end of the stream, a bare LF, an unterminated line.
HeaderBlockEnds == { <<CR, LF, "a", LF, "b">>, <<CR, LF>>, <<>>, <<LF>>, <<"X", ":", SP, "3">> }

HeaderWires ==
    { S_HTTP11 \o <<SP, "2", "0", "0", SP>> \o S_OK \o <<CR, LF>> \o Concat(ls) \o e :
        ls \in SeqsUpTo(ParseHeaderLines, MaxHeaderLines), e \in HeaderBlockEnds }

ParseWires == StatusWires \cup HeaderWires \cup {<<>>}

\* The accessors of a constructed Response.
Inspect ==
    /\ pc = "response"
    /\ pc' = "inspected"
    /\ seen' = [http_version |-> Response_http_version(resp),
                status |-> Response_status(resp),
                status_text |-> Response_status_text(resp),
                content_type |-> Response_content_type(resp),
                charset |-> Response_charset(resp)]
    /\ UNCHANGED <<origin, resp, perr, tmo, bodyReader, rdLast, rdOut, pool, strRes>>
    /\ UNCHANGED lrVars
    /\ UNCHANGED hVars
    /\ UNCHANGED dVars

NextParse ==
    \/ \E w \in ParseWires : FromStr(w)
    \/ Inspect

SpecParse == InitResponse /\ [][NextParse]_vars

(***************************************************************************)
(* Helpers of the statements about construction from text.                 *)
(***************************************************************************)
HasResponse == pc \in {"response", "inspected"}

(***************************************************************************)
(* C11: every successfully constructed Response has a status code in       *)
(* [100, 999]; a status line whose code token does not denote a value in   *)
(* that range yields no Response.                                          *)
(***************************************************************************)
C11_StatusInRange ==
    HasResponse => Response_status(resp) \in 100..999

\* A version token of the shape HTTP/x.y with x and y ASCII digits.
WellFormedVersion(v) ==
    /\ Len(v) = 8
    /\ Take(v, 5) = S_HTTP_SLASH
    /\ is_ascii_digit(v[6])
    /\ v[7] = "."
    /\ is_ascii_digit(v[8])

\* A code token of exactly three ASCII digits, and the number it denotes.
ThreeDigits(c) == Len(c) = 3 /\ \A i \in 1..3 : is_ascii_digit(c[i])

ThreeDigitValue(c) == 100 * DigitVal(c[1]) + 10 * DigitVal(c[2]) + DigitVal(c[3])

\* The text from_str was given: a status line and an empty header block.
StatusLineOnly(line) == line \o <<CR, LF, CR, LF, "a">>

(***************************************************************************)
(* C12: for every well-formed status line "HTTP/x.y <3-digit-code>         *)
(* <reason>" (x, y ASCII digits, the line ASCII) parsing succeeds,         *)
(* status() is the numeric value of the code token, http_version() is the  *)
(* first space-delimited token and status_text() is the reason with its    *)
(* surrounding whitespace trimmed.                                         *)
(***************************************************************************)
C12_WellFormedStatusLine ==
    \A v \in ParseVersions, c \in ParseCodes, r \in ParseReasons :
        /\ pc # "start"
        /\ WellFormedVersion(v) /\ ThreeDigits(c) /\ is_ascii(r)
        /\ origin.wire = StatusLineOnly(v \o <<SP>> \o c \o <<SP>> \o r)
        => /\ HasResponse
           /\ Response_status(resp) = ThreeDigitValue(c)
           /\ Response_http_version(resp) = v
           /\ Response_status_text(resp) = trim(r)
           /\ pc = "inspected" => /\ seen.status = ThreeDigitValue(c)
                                  /\ seen.http_version = v
                                  /\ seen.status_text = trim(r)

C12_Witness ==
    /\ pc = "inspected"
    /\ origin.wire = StatusLineOnly(S_HTTP10 \o <<SP, "9", "9", "9", SP, SP, "O", "K", SP>>)
    /\ seen.status = 999
    /\ seen.http_version = S_HTTP10
    /\ seen.status_text = S_OK

\* The first line of the text when it ends with CR LF: the characters
\* before that CR LF.  HasFirstLine says there is such a line.
HasFirstLine(w) ==
    \E k \in 2..Len(w) :
        /\ w[k] = LF /\ w[k - 1] = CR
        /\ \A j \in 1..(k - 1) : w[j] # LF

FirstLine(w) ==
    Take(w, (CHOOSE k \in 2..Len(w) : w[k] = LF /\ \A j \in 1..(k - 1) : w[j] # LF) - 2)

SpaceCount(line) == Cardinality({ i \in DOMAIN line : line[i] = SP })

\* The characters before the first space (the whole line without one).
FirstToken(line) ==
    IF SpaceCount(line) = 0 THEN line
    ELSE Take(line, (CHOOSE i \in DOMAIN line :
                        line[i] = SP /\ \A j \in 1..(i - 1) : line[j] # SP) - 1)

\* Prefix "HTTP/", length 8, digits at offsets 5 and 7.
VersionShape(v) ==
    /\ Len(v) = 8
    /\ Take(v, 5) = S_HTTP_SLASH
    /\ is_ascii_digit(v[6])
    /\ is_ascii_digit(v[8])

(***************************************************************************)
(* C13: a CR LF terminated status line that does not split on its first    *)
(* two spaces into exactly three tokens, or whose version token does not   *)
(* have the shape (prefix "HTTP/", length 8, digits at offsets 5 and 7),   *)
(* or that contains a non-ASCII character, makes parsing fail with error   *)
(* kind BadStatus, and no Response is produced.                            *)
(***************************************************************************)
C13_MalformedStatusLine ==
    /\ pc # "start"
    /\ HasFirstLine(origin.wire)
    /\ \/ SpaceCount(FirstLine(origin.wire)) < 2
       \/ ~VersionShape(FirstToken(FirstLine(origin.wire)))
       \/ \E i \in DOMAIN FirstLine(origin.wire) : FirstLine(origin.wire)[i] = NonAscii
    => pc = "failed" /\ perr.kind = "BadStatus" /\ resp = NoResponse

\* "HTTP/1.1 BORKED" has two tokens.
C13_Witness ==
    /\ pc = "failed"
    /\ perr.kind = "BadStatus"
    /\ origin.wire = StatusLineOnly(S_HTTP11 \o <<SP>> \o S_BORKED)

\* The text has no blank line after its first line: no CR LF that follows
\* the LF of the line before.
NoBlankLine(w) ==
    ~ \E k \in 3..Len(w) : w[k - 2] = LF /\ w[k - 1] = CR /\ w[k] = LF

\* Every line of the text ends with CR LF, the last one included.
AllLinesCRLF(w) ==
    /\ w = <<>> \/ w[Len(w)] = LF
    /\ \A k \in DOMAIN w : w[k] = LF => k >= 2 /\ w[k - 1] = CR

BadEnds(w) ==
    { k \in DOMAIN w : \/ w[k] = LF /\ (k = 1 \/ w[k - 1] # CR)
                       \/ k = Len(w) /\ w[k] # LF }

FirstBadEnd(w) == CHOOSE k \in BadEnds(w) : \A j \in BadEnds(w) : k <= j

\* The lines before the first line that does not end with CR LF.
BeforeBadLine(w) ==
    LET ends == { j \in 1..(FirstBadEnd(w) - 1) : w[j] = LF } IN
    IF ends = {} THEN <<>>
    ELSE Take(w, CHOOSE j \in ends : \A i \in ends : i <= j)

\* The first line without CR LF is read: it is the status line, or the
\* status line was accepted and no blank line came before it.
BadLineIsRead(w) ==
    /\ BadEnds(w) # {}
    /\ \/ BeforeBadLine(w) = <<>>
       \/ /\ parse_status_line(FirstLine(BeforeBadLine(w))).ok
          /\ NoBlankLine(BeforeBadLine(w))

(***************************************************************************)
(* C15: every line read while parsing the status line and the header       *)
(* block must end with CR LF: a line that ends with a bare LF, or a final  *)
(* line without terminator, aborts the construction at the first such line *)
(* with an I/O error of kind InvalidInput (not BadStatus), and no Response *)
(* is returned.                                                            *)
(***************************************************************************)
C15_LineWithoutCRLF ==
    pc # "start" /\ BadLineIsRead(origin.wire)
    => pc = "failed" /\ perr.kind = "InvalidInput" /\ resp = NoResponse

\* A header line that ends with a bare LF, and a blank line after it.
C15_Witness ==
    /\ pc = "failed"
    /\ perr.kind = "InvalidInput"
    /\ origin.wire = S_HTTP11 \o <<SP, "2", "0", "0", SP>> \o S_OK \o <<CR, LF>>
                       \o <<"X", ":", SP, "2", LF>> \o <<CR, LF>>

\* The end of the first blank line after the first line of the text.
HasBlankLine(w) == ~NoBlankLine(w)

BlankLineEnd(w) ==
    CHOOSE k \in 3..Len(w) :
        /\ w[k - 2] = LF /\ w[k - 1] = CR /\ w[k] = LF
        /\ \A j \in 3..(k - 1) : ~(w[j - 2] = LF /\ w[j - 1] = CR /\ w[j] = LF)

\* The positions, in order, of the LFs that end the status line and the
\* header lines before the blank line.
LineEnds(w) ==
    SelectSeq([k \in 1..(BlankLineEnd(w) - 2) |-> k], LAMBDA k : w[k] = LF)

\* The lines between the status line and the blank line, without CR LF.
LinesBeforeBlank(w) ==
    [n \in 1..(Len(LineEnds(w)) - 1) |->
        SubSeq(w, LineEnds(w)[n] + 1, LineEnds(w)[n + 1] - 2)]

\* The headers of the lines the header parser accepts, in order.
AcceptedHeaders(lines) ==
    LET parsed == [n \in DOMAIN lines |-> Header_from_str(lines[n])]
        accepted == SelectSeq(parsed, LAMBDA h : h.ok) IN
    [n \in DOMAIN accepted |-> [name |-> accepted[n].name, value |-> accepted[n].value]]

\* The status line is accepted and every line up to the blank line ends
\* with CR LF.
HeaderBlockComplete(w) ==
    /\ HasBlankLine(w)
    /\ \A k \in BadEnds(w) : k > BlankLineEnd(w)
    /\ parse_status_line(FirstLine(w)).ok

(***************************************************************************)
(* C16: the reading of the header block stops at the first empty line;     *)
(* the headers of the Response are exactly the lines before it that the    *)
(* header parser accepts, in their order and with duplicates kept; a line  *)
(* the header parser rejects is skipped, without failing the construction  *)
(* and without effect on the lines after it.                               *)
(***************************************************************************)
C16_HeadersAreAcceptedLines ==
    pc # "start" /\ HeaderBlockComplete(origin.wire)
    => /\ HasResponse
       /\ resp.headers = AcceptedHeaders(LinesBeforeBlank(origin.wire))
       /\ resp.stream = Drop(origin.wire, BlankLineEnd(origin.wire))

\* A rejected line, then an accepted one.
C16_Witness ==
    /\ HasResponse
    /\ origin.wire = S_HTTP11 \o <<SP, "2", "0", "0", SP>> \o S_OK \o <<CR, LF>>
                       \o <<"b", "a", "d", CR, LF>> \o HeaderLine(<<"X">>, <<"1">>)
                       \o <<CR, LF, "a", LF, "b">>
    /\ resp.headers = << [name |-> <<"X">>, value |-> <<"1">>] >>
    /\ resp.stream = <<"a", LF, "b">>

\* The positions of a character in a text, and the least of a non-empty
\* set of positions.
PositionsOf(s, c) == { i \in DOMAIN s : s[i] = c }

Least(S) == CHOOSE k \in S : \A j \in S : k <= j

\* The Content-Type value has a ';', and a '=' after its first ';'.
HasSemicolon(v) == PositionsOf(v, ";") # {}

EqualsAfterSemicolon(v) ==
    { i \in PositionsOf(v, "=") : i > Least(PositionsOf(v, ";")) }

(***************************************************************************)
(* C17: charset() is the trimmed text that follows the first '=' after     *)
(* the first ';' of the Content-Type value, and "utf-8" when there is no   *)
(* Content-Type header, no ';' in its value, or no '=' after the first     *)
(* ';'; content_type() is the part of the value before the first ';' (the  *)
(* whole value when there is none), and "text/plain" when the header is    *)
(* absent.                                                                 *)
(***************************************************************************)
C17_CharsetAndContentType ==
    pc = "inspected" =>
        LET h == Response_header(resp, S_content_type) IN
        /\ seen.charset =
             IF ~h.some THEN <<"u", "t", "f", "-", "8">>
             ELSE IF ~HasSemicolon(h.v) THEN <<"u", "t", "f", "-", "8">>
             ELSE IF EqualsAfterSemicolon(h.v) = {} THEN <<"u", "t", "f", "-", "8">>
             ELSE trim(Drop(h.v, Least(EqualsAfterSemicolon(h.v))))
        /\ seen.content_type =
             IF ~h.some THEN <<"t", "e", "x", "t", "/", "p", "l", "a", "i", "n">>
             ELSE IF ~HasSemicolon(h.v) THEN h.v
             ELSE Take(h.v, Least(PositionsOf(h.v, ";")) - 1)

\* Content-Type: a; c= u ;d=1
C17_Witness ==
    /\ pc = "inspected"
    /\ Response_header(resp, S_content_type)
         = SomeStr(<<"a", ";", SP, "c", "=", SP, "u", SP, ";", "d", "=", "1">>)
    /\ seen.charset = <<"u", SP, ";", "d", "=", "1">>
    /\ seen.content_type = <<"a">>

(***************************************************************************)
(* Helpers of the statements about the framing decision.                   *)
(***************************************************************************)
\* The framing a body reader stands for: chunked (ChunkDecoder),
\* length-limited (LimitedRead, with its limit), read-until-close (Stream).
FramingOf(rd) ==
    [kind |-> rd.kind, limit |-> IF rd.kind = "LimitedRead" THEN rd.lr.limit ELSE 0]

\* into_reader has returned and its reader has not been read yet.
JustReturned == pc = "reader" /\ ~rdLast.called

\* The responses that agree with r on the version, the status code, being
\* the response to a HEAD request and the headers: other stream bytes,
\* another reason phrase, with or without request context.
SameFramingInputs(r) ==
    { [r EXCEPT !.stream = b, !.unit = u, !.status_line = @ \o t] :
        b \in Bodies,
        u \in IF is_head(r) THEN {SomeUnit(TRUE)} ELSE {NoUnit, SomeUnit(FALSE)},
        t \in {<<>>, <<"!">>} }

(***************************************************************************)
(* C18: the framing decision of into_reader is a function of the version,  *)
(* the status code, being the response to HEAD and the headers: exactly    *)
(* one of chunked, length-limited and read-until-close is selected, and a  *)
(* response that agrees on those inputs gets the same framing (and the     *)
(* same limit) whatever bytes its stream holds and whatever else differs.  *)
(* The reader that reports a failed set_read_timeout carries no framing.   *)
(***************************************************************************)
C18_FramingIsPure ==
    JustReturned /\ tmo = NoError
    => /\ FramingOf(bodyReader).kind \in {"ChunkDecoder", "LimitedRead", "Stream"}
       /\ \A r \in SameFramingInputs(resp) :
             /\ Response_http_version(r) = Response_http_version(resp)
             /\ FramingOf(into_reader(r, NoError)) = FramingOf(bodyReader)

\* A chunked response whose stream holds a truncated chunked body.
C18_Witness ==
    /\ JustReturned /\ tmo = NoError
    /\ bodyReader.kind = "ChunkDecoder"
    /\ resp.stream = <<"2", CR, LF, "a">>
    /\ [resp EXCEPT !.stream = <<>>] \in SameFramingInputs(resp)

(***************************************************************************)
(* C19: a status line whose code token is not exactly three ASCII digits   *)
(* is rejected with BadStatus; in particular a token of three characters   *)
(* made of a sign and two digits ("+12") is rejected.                      *)
(***************************************************************************)
C19_CodeTokenThreeDigits ==
    \A v \in ParseVersions, c \in ParseCodes, r \in ParseReasons :
        /\ pc # "start"
        /\ ~ThreeDigits(c)
        /\ origin.wire = StatusLineOnly(v \o <<SP>> \o c \o <<SP>> \o r)
        => pc = "failed" /\ perr.kind = "BadStatus"

\* The Response has no Transfer-Encoding header with a non-empty value.
NoTransferEncoding(r) ==
    \A i \in DOMAIN r.headers :
        Header_is_name(r.headers[i], S_transfer_encoding) => r.headers[i].value = <<>>

\* The text is the decimal form of n, with or without a leading '+'.
DenotesLength(v, n) == v = fmt_unsigned(n) \/ v = <<"+">> \o fmt_unsigned(n)

(***************************************************************************)
(* C20: for an HTTP/1.1 response without Connection: close, without a      *)
(* non-empty Transfer-Encoding and with a body allowed, a Content-Length   *)
(* that parses as a non-negative integer N selects the length-limited      *)
(* reader with limit exactly N, wrapped for pool return; a missing or      *)
(* unparsable Content-Length (negative, non-numeric, empty) selects        *)
(* read-until-close without pool return.                                   *)
(***************************************************************************)
C20_ContentLengthFraming ==
    /\ JustReturned /\ tmo = NoError
    /\ Response_http_version(resp) = S_HTTP11
    /\ ~is_close(resp) /\ NoTransferEncoding(resp) /\ ~has_no_body(resp)
    => LET l == Response_header(resp, S_content_length) IN
       IF l.some /\ \E n \in 0..9 : DenotesLength(l.v, n)
       THEN /\ bodyReader.kind = "LimitedRead"
            /\ \A n \in 0..9 : DenotesLength(l.v, n) =>
                  bodyReader.lr = LimitedRead_new(resp.stream, n)
            /\ bodyReader.pool
       ELSE /\ bodyReader.kind = "Stream"
            /\ bodyReader.stream = resp.stream
            /\ ~bodyReader.pool

\* Content-Length: 2 on a body of three bytes.
C20_Witness ==
    /\ JustReturned /\ tmo = NoError
    /\ Response_http_version(resp) = S_HTTP11
    /\ resp.headers = << [name |-> S_Content_Length, value |-> <<"2">>] >>
    /\ resp.stream = <<"a", "b", "c">>
    /\ bodyReader.lr = LimitedRead_new(<<"a", "b", "c">>, 2)
    /\ bodyReader.pool

(***************************************************************************)
(* The deadline of a request.  The Unit carries deadline: Option<Instant>; *)
(* do_from_stream and into_reader each wrap the stream in a DeadlineStream *)
(* built with it.  DeadlineStream (crate::stream) fails a read with        *)
(* TimedOut once the clock has reached its deadline and never changes the  *)
(* deadline it was built with.  Instants are numbers, the clock is `now`.  *)
(***************************************************************************)
MaxTime == 4        \* the clock runs from 0 to MaxTime

MaxDeadline == 3    \* deadlines are 1..MaxDeadline

NoTimedUnit == [some |-> FALSE, is_head |-> FALSE, deadline |-> NoneNum]

TimedUnit(deadline) == [some |-> TRUE, is_head |-> FALSE, deadline |-> deadline]

\* A Stream, as it is before and after parsing.
BareStream(bytes) == [bytes |-> bytes, wrapped |-> FALSE, deadline |-> NoneNum]

\* DeadlineStream::new(stream, deadline)
DeadlineStream_over(bytes, deadline) ==
    [bytes |-> bytes, wrapped |-> TRUE, deadline |-> deadline]

\* unit.as_ref().and_then(|u| u.deadline.clone()) in do_from_stream
do_from_stream_deadline(unit) == IF unit.some THEN unit.deadline ELSE NoneNum

\* A plausible bug: the body is read without the deadline.
into_reader_deadline_none(unit) == NoneNum

\* unit.as_ref().and_then(|u| u.deadline) in into_reader
into_reader_deadline(unit) == IF unit.some THEN unit.deadline ELSE NoneNum

\* A read of a DeadlineStream at time t fails when its deadline has come.
DeadlineStream_expired(self, t) == self.deadline.some /\ t >= self.deadline.v

TimedOut == Err("TimedOut", "timed out reading response")

NoTimedRead == [called |-> FALSE, phase |-> "", at |-> 0, deadline |-> NoneNum,
                res |-> NoResult]

TimedRead(phase, self, res) ==
    [called |-> TRUE, phase |-> phase, at |-> now, deadline |-> self.deadline,
     res |-> res]

TimedUnits ==
    { NoTimedUnit, TimedUnit(NoneNum) } \cup { TimedUnit(SomeNum(d)) : d \in 1..MaxDeadline }

TimedWires ==
    { S_HTTP11 \o <<SP, "2", "0", "0", SP>> \o S_OK \o <<CR, LF>> \o hs \o <<CR, LF>> \o b :
        hs \in { <<>>, HeaderLine(<<"X">>, <<"1">>) }, b \in { <<"a">>, <<"a", "b">> } }

InitDeadline ==
    /\ dpc = "start"
    /\ dunit \in TimedUnits
    /\ dstream \in { BareStream(w) : w \in TimedWires }
    /\ now = 0
    /\ dread = NoTimedRead
    /\ LimitedIdle
    /\ ResponseIdle
    /\ HistIdle

\* do_from_stream: the stream is wrapped with the unit's deadline.
BeginParse ==
    /\ dpc = "start"
    /\ dpc' = "status"
    /\ dstream' = DeadlineStream_over(dstream.bytes, do_from_stream_deadline(dunit))
    /\ UNCHANGED <<dunit, now, dread>>
    /\ UNCHANGED <<lrVars, rVars, hVars>>

\* read_next_line for the status line, then parse_status_line.
ReadStatusLine ==
    /\ dpc = "status"
    /\ LET l == read_next_line(dstream.bytes) IN
       IF DeadlineStream_expired(dstream, now)
       THEN /\ dpc' = "failed"
            /\ dread' = TimedRead("status", dstream, TimedOut)
            /\ UNCHANGED dstream
       ELSE /\ dpc' = IF l.ok /\ parse_status_line(l.line).ok THEN "headers" ELSE "failed"
            /\ dread' = TimedRead("status", dstream,
                                  IF l.ok THEN Ok(Len(l.line) + 2) ELSE Err(l.kind, l.msg))
            /\ dstream' = [dstream EXCEPT !.bytes = l.reader]
    /\ UNCHANGED <<dunit, now>>
    /\ UNCHANGED <<lrVars, rVars, hVars>>

\* One turn of the loop of do_from_stream; at the blank line the Response
\* is built and takes the stream out of its wrapper (stream.into()).
ReadHeaderLine ==
    /\ dpc = "headers"
    /\ LET l == read_next_line(dstream.bytes) IN
       IF DeadlineStream_expired(dstream, now)
       THEN /\ dpc' = "failed"
            /\ dread' = TimedRead("headers", dstream, TimedOut)
            /\ UNCHANGED dstream
       ELSE /\ dpc' = IF ~l.ok THEN "failed"
                      ELSE IF l.line = <<>> THEN "response" ELSE "headers"
            /\ dread' = TimedRead("headers", dstream,
                                  IF l.ok THEN Ok(Len(l.line) + 2) ELSE Err(l.kind, l.msg))
            /\ dstream' = IF l.ok /\ l.line = <<>> THEN BareStream(l.reader)
                          ELSE [dstream EXCEPT !.bytes = l.reader]
    /\ UNCHANGED <<dunit, now>>
    /\ UNCHANGED <<lrVars, rVars, hVars>>

\* into_reader: the stream is wrapped again, with the unit's deadline.
WrapForBody ==
    /\ dpc = "response"
    /\ dpc' = "body"
    /\ dstream' = DeadlineStream_over(dstream.bytes, into_reader_deadline(dunit))
    /\ UNCHANGED <<dunit, now, dread>>
    /\ UNCHANGED <<lrVars, rVars, hVars>>

\* A read of the body with a buffer of n bytes; each of the three readers
\* of into_reader reads the DeadlineStream.
ReadBody(n) ==
    /\ dpc = "body"
    /\ IF DeadlineStream_expired(dstream, now)
       THEN /\ dread' = TimedRead("body", dstream, TimedOut)
            /\ UNCHANGED dstream
       ELSE \E k \in (IF dstream.bytes = <<>> THEN {0} ELSE 1..Min(n, Len(dstream.bytes))) :
               /\ dread' = TimedRead("body", dstream, Ok(k))
               /\ dstream' = [dstream EXCEPT !.bytes = Drop(@, k)]
    /\ UNCHANGED <<dpc, dunit, now>>
    /\ UNCHANGED <<lrVars, rVars, hVars>>

\* Time passes.
Tick ==
    /\ now < MaxTime
    /\ now' = now + 1
    /\ UNCHANGED <<dpc, dunit, dstream, dread>>
    /\ UNCHANGED <<lrVars, rVars, hVars>>

NextDeadline ==
    \/ BeginParse
    \/ ReadStatusLine
    \/ ReadHeaderLine
    \/ WrapForBody
    \/ \E n \in 1..MaxBuf : ReadBody(n)
    \/ Tick

SpecDeadline == InitDeadline /\ [][NextDeadline]_vars

\* The deadline of the request: that of its context, none without context.
RequestDeadline == IF dunit.some THEN dunit.deadline ELSE NoneNum

(***************************************************************************)
(* C21: the absolute deadline of a request is one value for the read of    *)
(* the status line, of every header line and of the body: do_from_stream   *)
(* and into_reader both wrap the stream with the deadline of the request   *)
(* context, no read resets or extends it (no read succeeds once the clock  *)
(* has reached it), and a response without request context has no          *)
(* deadline in any phase.                                                  *)
(***************************************************************************)
C21_DeadlineShared ==
    /\ dpc \in {"status", "headers", "body"} =>
          dstream.wrapped /\ dstream.deadline = RequestDeadline
    /\ dread.called =>
          /\ dread.deadline = RequestDeadline
          /\ dread.res.tag = "Ok" /\ RequestDeadline.some => dread.at < RequestDeadline.v
          /\ dread.res = TimedOut => RequestDeadline.some /\ dread.at >= RequestDeadline.v
    /\ ~dunit.some => dstream.deadline = NoneNum

\* The status line and the headers were read before the deadline, and a
\* read of the body after it timed out.
C21_Witness ==
    /\ dpc = "body"
    /\ dunit = TimedUnit(SomeNum(2))
    /\ dread.called /\ dread.phase = "body"
    /\ dread.res = TimedOut
    /\ dread.at = 3

(***************************************************************************)
(* C22: when the read of the wrapped stream fails with an error (a         *)
(* timeout, say), LimitedRead returns that same error from that read call, *)
(* does not read the wrapped stream a second time, and leaves its count of *)
(* delivered bytes unchanged, so a later successful read continues from    *)
(* the same remaining count: the bytes delivered are always the first      *)
(* `position` bytes of the source.                                         *)
(***************************************************************************)
C22_InnerErrorPropagates ==
    /\ lrLast.called /\ lrLast.inner.tag = "Err" =>
          /\ lrLast.res = lrLast.inner
          /\ lr.position = lrLast.posBefore
          /\ lr.reader = lrLast.readerBefore
    /\ lrLast.called /\ lrLast.res.tag = "Err" /\ lrLast.res.kind # "InvalidData" =>
          lrLast.inner = lrLast.res
    /\ lrOut = Take(lrSrc, lr.position)
    /\ lr.reader = Drop(lrSrc, lr.position)

\* The wrapped read failed after one or more bytes were delivered, with
\* bytes left both in the limit and in the wrapped stream.
C22_Witness ==
    /\ lrLast.called
    /\ lrLast.inner = Err("TimedOut", "timed out reading response")
    /\ lrLast.res = Err("TimedOut", "timed out reading response")
    /\ 0 < lr.position
    /\ lr.position < lr.limit
    /\ lr.reader # <<>>

(***************************************************************************)
(* C23: LimitedRead reports the error "response body closed before all     *)
(* bytes were read" only when the wrapped stream has really ended before   *)
(* the limit was reached; a read with a zero-length buffer while bytes     *)
(* remain, on a wrapped stream that still has data, does not get it.       *)
(***************************************************************************)
C23_ShortReadOnlyAtRealEnd ==
    lrLast.called /\ lrLast.res = Err("InvalidData", ShortReadMsg)
    => lrLast.readerBefore = <<>> /\ lrLast.posBefore < lr.limit

\* The number of bytes up to and including the first blank line after the
\* first line of the text: the first LF CR LF at or after position k.
RECURSIVE HeadLength(_, _)
HeadLength(w, k) ==
    IF k > Len(w) THEN Len(w)
    ELSE IF k >= 3 /\ w[k - 2] = LF /\ w[k - 1] = CR /\ w[k] = LF THEN k
    ELSE HeadLength(w, k + 1)

\* The bytes of the text after the blank line: the body as it was sent.
SentBody == Drop(origin.wire, HeadLength(origin.wire, 3))

(***************************************************************************)
(* C24: parsing consumes from the stream exactly the status line, the      *)
(* header lines and the blank line: the stream of a parsed Response holds  *)
(* the bytes after the blank line's CR LF, and what its body reader        *)
(* delivers starts with the byte that follows the blank line (the decoded  *)
(* form of those bytes for a chunked body), no byte lost or repeated.      *)
(***************************************************************************)
C24_ParsingConsumesExactlyHead ==
    /\ pc \in {"response", "reader", "string"} => resp.stream = SentBody
    /\ Consumed /\ bodyReader.kind \in {"Stream", "LimitedRead"} =>
          IsPrefix(rdOut, SentBody)
    /\ Consumed /\ bodyReader.kind = "ChunkDecoder" =>
          IsPrefix(rdOut, chunk_decode(SentBody).data)

\* A response with headers whose body reader has delivered the first
\* byte after the blank line.
C24_Witness ==
    /\ pc = "reader"
    /\ resp.headers # <<>>
    /\ bodyReader.kind = "Stream"
    /\ SentBody = <<"a", "b", "c">>
    /\ rdOut = <<"a">>

====
